---- MODULE Spec2Model ----
(***************************************************************************)
(* BATS Chi-X Europe PITCH parsers: the sequenced binary multicast feed     *)
(* (src/batsmc/parser.py) and the line-delimited direct feed                *)
(* (src/bats/parser.py).  One Exchange object of either module is built,    *)
(* parse() is called on one buffer, and every step of parse() is an action. *)
(* Bytes and characters are numbers 0..255 (characters by their ASCII code).*)
(* write_quote and close_quotes are not defined by either class: they are   *)
(* the collaborator's, supplied by a subclass.  write_quote may return or   *)
(* raise; close_quotes returns.                                             *)
(***************************************************************************)
EXTENDS Integers, Sequences, FiniteSets, TLC

VARIABLES
    feed,        \* "multicast" or "direct": which module's Exchange was built
    pc,          \* position inside parse(): "idle", "header", "msgs",
                 \* "lines", "done" (returned) or "raised" (exception escaped)
    data,        \* multicast: the local `data` of parse() (bytes not yet cut off)
    pos,         \* multicast: bytes of the buffer already cut off the front of data
    seq_len,     \* multicast: block_length of the block being walked
    msg_count,   \* multicast: message_count of the block being walked
    offset,      \* multicast: the local `offset` inside the block
    i,           \* multicast: the loop variable of `for i in range(0, msg_count)`
    seq,         \* multicast: starting sequence of the block being walked
    contract,    \* multicast: self.contract
    pitch_time,  \* multicast: self.pitch_time, [set, val]
    flags,       \* multicast: self.flags, [present, b, attrs]
    lines,       \* direct: the lines of data.split('\n') not yet visited
    written,     \* write_quote calls that returned, in call order
    log,         \* one record per message step taken, in order
    blocks,      \* multicast: one record per block header parsed, in order
    closed,      \* number of close_quotes() calls made
    input        \* the descriptor the buffer of this parse() call was built from

vars == <<feed, pc, data, pos, seq_len, msg_count, seq, offset, i, contract,
          pitch_time, flags, lines, written, log, blocks, closed, input>>

-----------------------------------------------------------------------------
(* Python primitives *)

Min(a, b) == IF a < b THEN a ELSE b

\* s[a:b] for 0 <= a, 0 <= b: clamped to the sequence, empty when a >= b.
Slice(s, a, b) == SubSeq(s, a + 1, Min(b, Len(s)))

\* s[a:] for 0 <= a.
Drop(s, a) == SubSeq(s, a + 1, Len(s))

RECURSIVE LE(_)
\* The unsigned integer a little-endian byte string stands for (used where it
\* is below 2^24).
LE(x) == IF x = <<>> THEN 0 ELSE x[1] + 256 * LE(Tail(x))

RECURSIVE UInt(_)
\* The unsigned integer a little-endian byte string stands for, as its
\* base-256 digits, least significant first, without leading zero digits: 32-
\* and 64-bit values in full.
UInt(x) == IF x # <<>> /\ x[Len(x)] = 0 THEN UInt(SubSeq(x, 1, Len(x) - 1)) ELSE x

\* struct.unpack of one unsigned integer of n bytes ("H", "I", "Q"):
\* struct.error unless the argument is exactly n bytes long.
unpack(n, x) == [ok |-> Len(x) = n, val |-> IF Len(x) = n THEN UInt(x) ELSE <<>>]

RECURSIVE Pow2(_)
Pow2(n) == IF n = 0 THEN 1 ELSE 2 * Pow2(n - 1)

RECURSIVE Rep(_, _)
\* n copies of byte c.
Rep(c, n) == IF n = 0 THEN <<>> ELSE <<c>> \o Rep(c, n - 1)

\* ASCII codes of the characters the tables of the parsers use.
Asc == [sp |-> 32, q |-> 63, d0 |-> 48, d1 |-> 49, d2 |-> 50, d3 |-> 51,
        d4 |-> 52, d5 |-> 53, d6 |-> 54, d7 |-> 55, d8 |-> 56, d9 |-> 57,
        A |-> 65, B |-> 66, C |-> 67, D |-> 68, E |-> 69, F |-> 70, G |-> 71,
        H |-> 72, I |-> 73, K |-> 75, L |-> 76, M |-> 77, N |-> 78, O |-> 79,
        P |-> 80, Q |-> 81, R |-> 82, S |-> 83, T |-> 84, U |-> 85, V |-> 86,
        X |-> 88, Z |-> 90, c |-> 99, e |-> 101, j |-> 106, k |-> 107,
        lq |-> 113, s |-> 115, t |-> 116, x |-> 120]

-----------------------------------------------------------------------------
(* MsgBody.get_fields: the same code in both modules *)

RECURSIVE FieldStart(_, _)
\* The value of `start` when the loop reaches the k-th layout entry.
FieldStart(names, k) ==
    IF k = 1 THEN 0 ELSE FieldStart(names, k - 1) + names[k - 1][2]

\* The sum of the widths of a layout.
LayoutWidth(names) == FieldStart(names, Len(names) + 1)

FieldNames(names) == {names[k][1] : k \in 1..Len(names)}

\* fields[name] = data[start : start + width], a later entry of the same name
\* replacing an earlier one.
get_fields(d, names) ==
    [n \in FieldNames(names) |->
        LET k == CHOOSE k \in 1..Len(names) :
                    /\ names[k][1] = n
                    /\ \A j \in 1..Len(names) : names[j][1] = n => j <= k
        IN  Slice(d, FieldStart(names, k), FieldStart(names, k) + names[k][2])]

-----------------------------------------------------------------------------
(* Multicast feed: the catalog.  Each handler is declared with              *)
(* @process_msg_header(len) and a layout `names`; `types` maps the type     *)
(* byte to the handler.                                                     *)

mc_msg_login ==
    [name |-> "msg_login", len |-> 20,
     names |-> << <<"login_session_sub_id", 4>>,
                   <<"login_username", 4>>,
                   <<"login_filler", 2>>,
                   <<"login_password", 10>> >>]

mc_msg_login_response ==
    [name |-> "msg_login_response", len |-> 1,
     names |-> << <<"flags", 1>> >>]

mc_msg_gap_request ==
    [name |-> "msg_gap_request", len |-> 7,
     names |-> << <<"gap_unit", 1>>,
                   <<"gap_sequense", 4>>,
                   <<"gap_count", 2>> >>]

mc_msg_gap_response ==
    [name |-> "msg_gap_response", len |-> 8,
     names |-> << <<"gap_unit", 1>>,
                   <<"gap_sequence", 4>>,
                   <<"gap_count", 2>>,
                   <<"flags", 1>> >>]

mc_msg_time ==
    [name |-> "msg_time", len |-> 4,
     names |-> << <<"pitch_time", 4>> >>]

mc_msg_clear ==
    [name |-> "msg_clear", len |-> 4,
     names |-> << <<"pitch_time_offset", 4>> >>]

mc_msg_add_order ==
    [name |-> "msg_add_order", len |-> 23,
     names |-> << <<"pitch_time_offset", 4>>,
                   <<"pitch_order", 8>>,
                   <<"pitch_side", 1>>,
                   <<"pitch_shares_s", 2>>,
                   <<"pitch_symbol", 6>>,
                   <<"pitch_price_s", 2>> >>]

mc_msg_add_order_long ==
    [name |-> "msg_add_order_long", len |-> 33,
     names |-> << <<"pitch_time_offset", 4>>,
                   <<"pitch_order", 8>>,
                   <<"pitch_side", 1>>,
                   <<"pitch_shares_l", 4>>,
                   <<"pitch_symbol", 8>>,
                   <<"pitch_price_l", 8>> >>]

mc_msg_add_order_exp ==
    [name |-> "msg_add_order_exp", len |-> 38,
     names |-> << <<"pitch_time_offset", 4>>,
                   <<"pitch_order", 8>>,
                   <<"pitch_side", 1>>,
                   <<"pitch_share_ls", 4>>,
                   <<"pitch_symbol", 8>>,
                   <<"pitch_price_l", 8>>,
                   <<"pitch_add_order_flags", 1>>,
                   <<"pitch_participant", 4>> >>]

mc_msg_order_executed ==
    [name |-> "msg_order_executed", len |-> 27,
     names |-> << <<"pitch_time_offset", 4>>,
                   <<"pitch_order", 8>>,
                   <<"pitch_shares_l", 4>>,
                   <<"pitch_execution_id", 8>>,
                   <<"flags", 3>> >>]

mc_msg_order_executed_price ==
    [name |-> "msg_order_executed_price", len |-> 39,
     names |-> << <<"pitch_time_offset", 4>>,
                   <<"pitch_order", 8>>,
                   <<"pitch_e_shares_l", 4>>,
                   <<"pitch_r_shares_l", 4>>,
                   <<"pitch_execution_id", 8>>,
                   <<"pitch_price_l", 8>>,
                   <<"flags", 3>> >>]

mc_msg_reduce_size_short ==
    [name |-> "msg_reduce_size_short", len |-> 14,
     names |-> << <<"pitch_time_offset", 4>>,
                   <<"pitch_order", 8>>,
                   <<"pitch_shares_s", 2>> >>]

mc_msg_reduce_size_long ==
    [name |-> "msg_reduce_size_long", len |-> 16,
     names |-> << <<"pitch_time_offset", 4>>,
                   <<"pitch_order", 8>>,
                   <<"pitch_shares_l", 4>> >>]

mc_msg_modify_order_short ==
    [name |-> "msg_modify_order_short", len |-> 16,
     names |-> << <<"pitch_time_offset", 4>>,
                   <<"pitch_order", 8>>,
                   <<"pitch_shares_s", 2>>,
                   <<"pitch_price_s", 2>> >>]

mc_msg_modify_order_long ==
    [name |-> "msg_modify_order_long", len |-> 24,
     names |-> << <<"pitch_time_offset", 4>>,
                   <<"pitch_order", 8>>,
                   <<"pitch_shares_l", 4>>,
                   <<"pitch_price_l", 8>> >>]

mc_msg_delete_order ==
    [name |-> "msg_delete_order", len |-> 12,
     names |-> << <<"pitch_time_offset", 4>>,
                   <<"pitch_order", 8>> >>]

mc_msg_trade_short ==
    [name |-> "msg_trade_short", len |-> 35,
     names |-> << <<"pitch_time_offset", 4>>,
                   <<"pitch_order", 8>>,
                   <<"pitch_side", 1>>,
                   <<"pitch_shares_s", 2>>,
                   <<"pitch_symbol", 6>>,
                   <<"pitch_price_s", 2>>,
                   <<"pitch_execution_id", 8>>,
                   <<"flags", 4>> >>]

mc_msg_trade_long ==
    [name |-> "msg_trade_long", len |-> 45,
     names |-> << <<"pitch_time_offset", 4>>,
                   <<"pitch_order", 8>>,
                   <<"pitch_side", 1>>,
                   <<"pitch_shares_l", 4>>,
                   <<"pitch_symbol", 8>>,
                   <<"pitch_price_l", 8>>,
                   <<"pitch_execution_id", 8>>,
                   <<"flags", 4>> >>]

mc_msg_trade_break ==
    [name |-> "msg_trade_break", len |-> 12,
     names |-> << <<"pitch_time_offset", 4>>,
                   <<"pitch_execution_id", 8>> >>]

mc_msg_trade_report ==
    [name |-> "msg_trade_report", len |-> 62,
     names |-> << <<"pitch_time_offset", 4>>,
                   <<"pitch_shares_ll", 8>>,
                   <<"pitch_symbol", 8>>,
                   <<"pitch_price_l", 8>>,
                   <<"pitch_trade", 8>>,
                   <<"pitch_trade_timestamp", 8>>,
                   <<"pitch_exec_venue", 4>>,
                   <<"pitch_currency", 3>>,
                   <<"flags", 11>> >>]

mc_msg_end_session ==
    [name |-> "msg_end_session", len |-> 4,
     names |-> << <<"pitch_time_offset", 4>> >>]

mc_msg_trading_status ==
    [name |-> "msg_trading_status", len |-> 21,
     names |-> << <<"pitch_time_offset", 4>>,
                   <<"pitch_symbol", 8>>,
                   <<"flags", 1>>,
                   <<"pitch_reserved", 3>> >>]

mc_msg_statistics ==
    [name |-> "msg_statistics", len |-> 22,
     names |-> << <<"pitch_time_offset", 4>>,
                   <<"pitch_symbol", 8>>,
                   <<"pitch_price_l", 8>>,
                   <<"flags", 1>>,
                   <<"price_determination", 1>> >>]

mc_msg_auction_update ==
    [name |-> "msg_auction_update", len |-> 45,
     names |-> << <<"pitch_time_offset", 4>>,
                   <<"pitch_symbol", 8>>,
                   <<"auction_type", 1>>,
                   <<"pitch_reference_price_l", 8>>,
                   <<"pitch_buy_shares_l", 4>>,
                   <<"pitch_sell_shares_l", 4>>,
                   <<"pitch_indicative_price_l", 8>>,
                   <<"pitch_reserved", 8>> >>]

mc_msg_auction_summary ==
    [name |-> "msg_auction_summary", len |-> 47,
     names |-> << <<"pitch_time_offset", 4>>,
                   <<"pitch_symbol", 8>>,
                   <<"auction_type", 1>>,
                   <<"pitch_price_l", 8>>,
                   <<"pitch_shares_l", 4>> >>]

mc_types ==
    1 :> mc_msg_login @@
    2 :> mc_msg_login_response @@
    3 :> mc_msg_gap_request @@
    4 :> mc_msg_gap_response @@
    32 :> mc_msg_time @@
    151 :> mc_msg_clear @@
    34 :> mc_msg_add_order @@
    64 :> mc_msg_add_order_long @@
    47 :> mc_msg_add_order_exp @@
    35 :> mc_msg_order_executed @@
    36 :> mc_msg_order_executed_price @@
    37 :> mc_msg_reduce_size_long @@
    38 :> mc_msg_reduce_size_short @@
    39 :> mc_msg_modify_order_long @@
    40 :> mc_msg_modify_order_short @@
    41 :> mc_msg_delete_order @@
    43 :> mc_msg_trade_short @@
    65 :> mc_msg_trade_long @@
    44 :> mc_msg_trade_break @@
    50 :> mc_msg_trade_report @@
    45 :> mc_msg_end_session @@
    49 :> mc_msg_trading_status @@
    52 :> mc_msg_statistics @@
    149 :> mc_msg_auction_update @@
    150 :> mc_msg_auction_summary

-----------------------------------------------------------------------------
(* Multicast feed: the flag structure and the flag functions *)

\* A flag structure whose trading_mode slot is as narrow as the others.
FlagsBitsNarrow ==
    [market_mechanism |-> 3, trading_mode |-> 3, transaction_category |-> 3,
     modification_indicator |-> 3, offbook_automated_indicator |-> 3,
     trade_timing_indicator |-> 3, benchmark_indicator |-> 3,
     crossing_trade |-> 3, ex_cum_dividend |-> 3, negotiated_trade |-> 3,
     publication_indicator |-> 3, trading_status |-> 3, statistics_type |-> 3,
     login_status |-> 3, gap_status |-> 3]

\* Bit width of each bit field of Flags.FlagsBits.
FlagsBits ==
    [market_mechanism |-> 3, trading_mode |-> 4, transaction_category |-> 3,
     modification_indicator |-> 3, offbook_automated_indicator |-> 3,
     trade_timing_indicator |-> 3, benchmark_indicator |-> 3,
     crossing_trade |-> 3, ex_cum_dividend |-> 3, negotiated_trade |-> 3,
     publication_indicator |-> 3, trading_status |-> 3, statistics_type |-> 3,
     login_status |-> 3, gap_status |-> 3]

NoAttrs == [a \in {} |-> 0]

\* Flags(): every bit field 0, no plain attribute.
Flags == [present |-> TRUE, b |-> [f \in DOMAIN FlagsBits |-> 0], attrs |-> NoAttrs]

\* The Exchange object has no attribute `flags` (before the first message and
\* after `del self.flags`).
NoFlags == [present |-> FALSE, b |-> [f \in DOMAIN FlagsBits |-> 0], attrs |-> NoAttrs]

\* Assignment to a ctypes bit field keeps the low `width` bits of the value.
SetBits(fl, f, v) == [fl EXCEPT !.b[f] = v % Pow2(FlagsBits[f])]

\* Assignment to a name that is no bit field makes a plain Python attribute.
SetAttr(fl, a, v) == [fl EXCEPT !.attrs = (a :> v) @@ fl.attrs]

\* dict.get(key, default).
DictGet(tbl, key, default) == IF key \in DOMAIN tbl THEN tbl[key] ELSE default

\* dict.get(key, default) of a dict whose keys are 1-character str, called with
\* a bytes object (a slice of the message body): bytes never equal str, so the
\* lookup misses whatever the byte is.
StrDictGetBytes(tbl, key, default) == default

\* chr(x): the character for an int (an element of a bytes object), TypeError
\* for a str (an element of a str).
chr_ok(elem_is_int) == elem_is_int

\* The lookup tables of the @flag functions (keys by ASCII code).
mc_flag_tables ==
    [market_mechanism |-> (Asc.d1 :> 1 @@ Asc.d2 :> 2 @@ Asc.d3 :> 3 @@ Asc.d4 :> 4),
     trading_mode |-> (Asc.d1 :> 1 @@ Asc.d2 :> 2 @@ Asc.d3 :> 3 @@ Asc.d4 :> 4 @@
                       Asc.d5 :> 5 @@ Asc.d6 :> 6 @@ Asc.d7 :> 7 @@ Asc.O :> 8 @@
                       Asc.K :> 9 @@ Asc.I :> 10 @@ Asc.U :> 11),
     transaction_category |-> (Asc.P :> 1 @@ Asc.D :> 2 @@ Asc.T :> 3 @@
                               Asc.G :> 4 @@ Asc.F :> 5),
     negotiated_trade |-> (Asc.N :> 1),
     crossing_trade |-> (Asc.X :> 1),
     modification_indicator |-> (Asc.A :> 1 @@ Asc.C :> 2),
     benchmark_indicator |-> (Asc.B :> 1),
     ex_cum_dividend |-> (Asc.E :> 1),
     offbook_automated_indicator |-> (Asc.Q :> 1 @@ Asc.M :> 2),
     publication_indicator |-> (Asc.d1 :> 1),
     trade_timing_indicator |-> (Asc.d1 :> 1 @@ Asc.d2 :> 2)]

\* The @flag wrapper around flag function f, called with one element of a
\* bytes object: chr() of it, then self.flags.f = table.get(key, 0); an
\* exception inside is caught and leaves the flags as they are.
mc_flag(fl, f, byte) ==
    IF chr_ok(TRUE) THEN SetBits(fl, f, DictGet(mc_flag_tables[f], byte, 0)) ELSE fl

\* The flag function called with data[k], k = 0, 1, ..., by each parse_*_flags.
mc_parse_order_execution_flag ==
    <<"market_mechanism", "trading_mode", "ex_cum_dividend">>

mc_parse_trade_flags ==
    <<"market_mechanism", "trading_mode", "transaction_category", "ex_cum_dividend">>

mc_parse_trade_report_flags ==
    <<"trade_timing_indicator", "market_mechanism", "trading_mode",
      "transaction_category", "negotiated_trade", "crossing_trade",
      "modification_indicator", "benchmark_indicator", "ex_cum_dividend",
      "publication_indicator", "offbook_automated_indicator">>

RECURSIVE mc_parse_flags(_, _, _, _)
\* The calls of a parse_*_flags method from the k-th on: data[k-1] raises
\* IndexError (outside the @flag wrapper) when the flags field is too short,
\* the flags set by the earlier calls staying set.
mc_parse_flags(fl, d, funcs, k) ==
    IF k > Len(funcs) THEN [raised |-> FALSE, flags |-> fl]
    ELSE IF k > Len(d) THEN [raised |-> TRUE, flags |-> fl]
    ELSE mc_parse_flags(mc_flag(fl, funcs[k], d[k]), d, funcs, k + 1)

-----------------------------------------------------------------------------
(* Multicast feed: the handler bodies *)

mc_status_tables ==
    [login_status |-> (Asc.A :> 1 @@ Asc.N :> 2 @@ Asc.B :> 3 @@ Asc.S :> 4),
     gap_status |-> (Asc.A :> 1 @@ Asc.O :> 2 @@ Asc.D :> 3 @@ Asc.M :> 4 @@
                     Asc.S :> 5 @@ Asc.C :> 6 @@ Asc.I :> 7),
     trading_status |-> (Asc.T :> 1 @@ Asc.R :> 2 @@ Asc.C :> 3 @@ Asc.S :> 4 @@
                         Asc.N :> 5 @@ Asc.V :> 6 @@ Asc.O :> 7 @@ Asc.E :> 8 @@
                         Asc.H :> 9 @@ Asc.M :> 10 @@ Asc.P :> 11),
     statistic_type |-> (Asc.C :> 1 @@ Asc.H :> 2 @@ Asc.L :> 3 @@ Asc.O :> 4 @@
                         Asc.P :> 5),
     pitch_price_determination |-> (Asc.d0 :> 1 @@ Asc.d1 :> 2),
     auction_type |-> (Asc.O :> 1 @@ Asc.C :> 2 @@ Asc.H :> 3 @@ Asc.V :> 4)]

\* A session in which the first Time message stays the base.
msg_time_first(fields, pt) ==
    IF pt.set THEN pt ELSE [set |-> TRUE, val |-> fields["pitch_time"]]

\* msg_time: self.pitch_time = fields['pitch_time'], whatever it was.
msg_time(fields, pt) == [set |-> TRUE, val |-> fields["pitch_time"]]

\* The body of handler h (the decorated function) run on the body bytes d with
\* self.flags = fl and self.pitch_time = pt: whether it raised, the fields it
\* returned, and self.flags and self.pitch_time after it.
mc_handler(h, d, fl, pt) ==
    LET fields == get_fields(d, h.names)
        res(f, l, t) == [raised |-> FALSE, fields |-> f, flags |-> l, pitch_time |-> t]
        exc(l) == [raised |-> TRUE, fields |-> fields, flags |-> l, pitch_time |-> pt]
        positional(funcs) ==
            LET r == mc_parse_flags(fl, fields["flags"], funcs, 1)
            IN  IF r.raised THEN exc(r.flags) ELSE res(fields, r.flags, pt)
        status(f) == StrDictGetBytes(mc_status_tables[f], fields["flags"], 0)
    IN  CASE h.name = "msg_login_response" ->
                res(NoAttrs, SetBits(fl, "login_status", status("login_status")), pt)
          [] h.name = "msg_gap_response" ->
                res(fields, SetBits(fl, "gap_status", status("gap_status")), pt)
          [] h.name = "msg_time" ->
                res(fields, fl, msg_time(fields, pt))
          [] h.name \in {"msg_order_executed", "msg_order_executed_price"} ->
                positional(mc_parse_order_execution_flag)
          [] h.name \in {"msg_trade_short", "msg_trade_long"} ->
                positional(mc_parse_trade_flags)
          [] h.name = "msg_trade_report" ->
                positional(mc_parse_trade_report_flags)
          [] h.name = "msg_trading_status" ->
                res(fields, SetBits(fl, "trading_status", status("trading_status")), pt)
          [] h.name = "msg_statistics" ->
                res(fields,
                    SetAttr(SetAttr(fl, "statistic_type", status("statistic_type")),
                            "pitch_price_determination",
                            StrDictGetBytes(mc_status_tables["pitch_price_determination"],
                                            fields["price_determination"], 0)),
                    pt)
          [] h.name \in {"msg_auction_update", "msg_auction_summary"} ->
                \* fields['flags']: the layout has no field of that name, KeyError
                IF "flags" \in DOMAIN fields
                THEN res(fields, SetAttr(fl, "auction_type", status("auction_type")), pt)
                ELSE exc(fl)
          [] OTHER -> res(fields, fl, pt)


-----------------------------------------------------------------------------
(* Multicast feed: map_quote and the process_msg_header wrapper *)

\* A map_quote that divides short prices the way it divides long ones.
map_entry_long_divisor ==
    << [src |-> "pitch_shares_s",  dst |-> "size",  n |-> 2, den |-> 1],
       [src |-> "pitch_shares_l",  dst |-> "size",  n |-> 4, den |-> 1],
       [src |-> "pitch_shares_ll", dst |-> "size",  n |-> 8, den |-> 1],
       [src |-> "pitch_price_l",   dst |-> "price", n |-> 8, den |-> 10000],
       [src |-> "pitch_price_s",   dst |-> "price", n |-> 2, den |-> 10000] >>

\* The map_entry(src, dst, fconv) calls of map_quote whose fconv is an unpack,
\* in call order: n the bytes the unpack format takes, den the divisor of the
\* conversion (1: the value as it is).
map_entry ==
    << [src |-> "pitch_shares_s",  dst |-> "size",  n |-> 2, den |-> 1],
       [src |-> "pitch_shares_l",  dst |-> "size",  n |-> 4, den |-> 1],
       [src |-> "pitch_shares_ll", dst |-> "size",  n |-> 8, den |-> 1],
       [src |-> "pitch_price_l",   dst |-> "price", n |-> 8, den |-> 10000],
       [src |-> "pitch_price_s",   dst |-> "price", n |-> 2, den |-> 100] >>

\* {b'B': 0, b'S': 1}.get(x), None written -1.
mc_side(x) == IF x = <<Asc.B>> THEN 0 ELSE IF x = <<Asc.S>> THEN 1 ELSE -1

\* get_ts(): datetime.now() for a message without pitch_time_offset, else
\* date_format(midnight + unpack("I", self.pitch_time) + unpack("I", offset)/1000):
\* AttributeError when no Time message has set self.pitch_time, struct.error
\* when either operand is not 4 bytes long.  The result is kept as the two
\* summands beside midnight: base (added as it is) and off (divided by 1000).
get_ts(fields, pt) ==
    IF "pitch_time_offset" \notin DOMAIN fields
    THEN [raised |-> FALSE, ts |-> [now |-> TRUE, base |-> <<>>, off |-> <<>>]]
    ELSE IF ~pt.set \/ ~unpack(4, pt.val).ok
              \/ ~unpack(4, fields["pitch_time_offset"]).ok
    THEN [raised |-> TRUE, ts |-> [now |-> FALSE, base |-> <<>>, off |-> <<>>]]
    ELSE [raised |-> FALSE,
          ts |-> [now |-> FALSE, base |-> unpack(4, pt.val).val,
                  off |-> unpack(4, fields["pitch_time_offset"]).val]]

\* The argument of date_format in get_ts, less midnight:
\* unpack("I", self.pitch_time)[0] + unpack("I", offset)[0]/1000, as whole
\* seconds and the milliseconds beside them (used where both operands are
\* below 2^24).
get_ts_seconds(ts) ==
    [sec |-> LE(ts.base) + LE(ts.off) \div 1000, ms |-> LE(ts.off) % 1000]

\* map_quote(fields): whether it raised, and the tuple it returned.  A call
\* of map_entry does nothing when the message has no field src, raises
\* struct.error when the field is not n bytes long, and else sets
\* entry[dst] = fconv(value), a later call replacing what an earlier one set.
mc_map_quote(fields, fl, pt, ctr) ==
    LET calls == {k \in 1..Len(map_entry) : map_entry[k].src \in DOMAIN fields}
        bad   == {k \in calls :
                     ~unpack(map_entry[k].n, fields[map_entry[k].src]).ok}
        keys  == {map_entry[k].dst : k \in calls}
                     \cup (IF "pitch_side" \in DOMAIN fields THEN {"side"} ELSE {})
                     \cup {"flags"}
        entry == [key \in keys |->
                     IF key = "side" THEN mc_side(fields["pitch_side"])
                     ELSE IF key = "flags" THEN fl
                     ELSE LET k == CHOOSE k \in calls :
                                      /\ map_entry[k].dst = key
                                      /\ \A j \in calls :
                                            map_entry[j].dst = key => j <= k
                          IN  [num |-> unpack(map_entry[k].n,
                                              fields[map_entry[k].src]).val,
                               den |-> map_entry[k].den]]
        t     == get_ts(fields, pt)
    IN  [raised |-> bad # {} \/ t.raised,
         q |-> [contract |-> ctr, ts |-> t.ts,
                entry |-> IF bad # {} THEN NoAttrs ELSE entry]]

\* A wrapper that goes on with the flag set the instance still has.
keep_flags(old) == IF old.present THEN old ELSE Flags

\* self.flags = Flags(): a new flag set, whatever the instance had before.
new_flags(old) == Flags

\* The wrapper process_msg_header(msg_len) puts around handler h, called with
\* the bytes d on an instance whose flags are fl; wq_raises: whether the
\* collaborator's write_quote raises.
\* Every exception of the handler, of map_quote and of write_quote is caught
\* (the message is reported and ignored); `del self.flags` runs only when
\* none was raised.
mc_process_msg_header(h, d, fl, pt, ctr, wq_raises) ==
    LET r == mc_handler(h, Slice(d, 0, h.len), new_flags(fl), pt)
        m == mc_map_quote(r.fields, r.flags, r.pitch_time, ctr)
    IN  IF r.raised \/ m.raised \/ wq_raises
        THEN [out |-> "failed", decoded |-> ~r.raised,
              cause |-> IF r.raised THEN "handler"
                        ELSE IF m.raised THEN "map_quote" ELSE "write_quote",
              flags |-> r.flags, pitch_time |-> r.pitch_time, q |-> m.q]
        ELSE [out |-> "forwarded", decoded |-> TRUE, cause |-> "none",
              flags |-> NoFlags, pitch_time |-> r.pitch_time, q |-> m.q]

-----------------------------------------------------------------------------
(* Multicast feed: parse() *)

\* unpack("HBBI", data): native layout, little-endian, 8 bytes; struct.error
\* (any other length) is caught and read as end of stream.
parse_sequence_header(d) ==
    IF Len(d) = 8
    THEN [seq_len |-> LE(SubSeq(d, 1, 2)), msg_count |-> d[3], unit |-> d[4],
          seq |-> UInt(SubSeq(d, 5, 8))]
    ELSE [seq_len |-> 0, msg_count |-> 0, unit |-> 0, seq |-> <<>>]

\* A loop that leaves the offset where it was.
mc_next_offset_stuck(off, mlen) == off

\* offset += mlen
mc_next_offset(off, mlen) == off + mlen

\* An outer cursor that stays where it is.
mc_next_data_stay(d, slen, off) == d

\* An outer cursor that moves to where the inner one stopped.
mc_next_data_inner(d, slen, off) == Drop(d, off)

\* data = data[seq_len:]
mc_next_data(d, slen, off) == Drop(d, slen)


-----------------------------------------------------------------------------
(* Direct feed: the catalog *)

bats_msg_clear ==
    [name |-> "msg_clear", len |-> 8,
     names |-> << <<"pitch_symbol", 8>> >>]

bats_msg_add_order ==
    [name |-> "msg_add_order", len |-> 45,
     names |-> << <<"pitch_order", 12>>,
                   <<"pitch_side", 1>>,
                   <<"pitch_shares_s", 6>>,
                   <<"pitch_symbol", 6>>,
                   <<"pitch_price_s", 10>>,
                   <<"pitch_display", 1>> >>]

bats_msg_add_order_long ==
    [name |-> "msg_add_order_long", len |-> 60,
     names |-> << <<"pitch_order", 12>>,
                   <<"pitch_side", 1>>,
                   <<"pitch_shares_l", 10>>,
                   <<"pitch_symbol", 8>>,
                   <<"pitch_price_l", 19>>,
                   <<"pitch_display", 1>> >>]

bats_msg_add_order_exp ==
    [name |-> "msg_add_order_exp", len |-> 64,
     names |-> << <<"pitch_order", 12>>,
                   <<"pitch_side", 1>>,
                   <<"pitch_shares_l", 10>>,
                   <<"pitch_symbol", 8>>,
                   <<"pitch_price_l", 19>>,
                   <<"pitch_type", 1>>,
                   <<"pitch_participant", 4>> >>]

bats_msg_order_executed ==
    [name |-> "msg_order_executed", len |-> 42,
     names |-> << <<"pitch_order", 12>>,
                   <<"pitch_shares_s", 6>>,
                   <<"pitch_execution", 12>>,
                   <<"flags", 3>> >>]

bats_msg_order_executed_long ==
    [name |-> "msg_order_executed_long", len |-> 46,
     names |-> << <<"pitch_order", 12>>,
                   <<"pitch_shares_l", 10>>,
                   <<"pitch_execution", 12>>,
                   <<"flags", 3>> >>]

bats_msg_order_cancel ==
    [name |-> "msg_order_cancel", len |-> 27,
     names |-> << <<"pitch_order", 12>>,
                   <<"pitch_shares_s", 6>> >>]

bats_msg_order_cancel_long ==
    [name |-> "msg_order_cancel_long", len |-> 31,
     names |-> << <<"pitch_order", 12>>,
                   <<"pitch_shares_l", 10>> >>]

bats_msg_trade ==
    [name |-> "msg_trade", len |-> 60,
     names |-> << <<"pitch_order", 12>>,
                   <<"pitch_side", 1>>,
                   <<"pitch_shares_s", 6>>,
                   <<"pitch_symbol", 6>>,
                   <<"pitch_price_s", 10>>,
                   <<"pitch_execution", 12>>,
                   <<"flags", 4>> >>]

bats_msg_trade_long ==
    [name |-> "msg_trade_long", len |-> 75,
     names |-> << <<"pitch_order", 12>>,
                   <<"pitch_side", 1>>,
                   <<"pitch_shares_s", 10>>,
                   <<"pitch_symbol", 8>>,
                   <<"pitch_price_l", 19>>,
                   <<"pitch_execution", 12>>,
                   <<"flags", 4>> >>]

bats_msg_trade_break ==
    [name |-> "msg_trade_break", len |-> 21,
     names |-> << <<"pitch_execution", 12>> >>]

bats_msg_trade_report ==
    [name |-> "msg_trade_report", len |-> 94,
     names |-> << <<"pitch_shares_l", 12>>,
                   <<"pitch_symbol", 8>>,
                   <<"pitch_price_l", 19>>,
                   <<"pitch_trade", 12>>,
                   <<"date", 8>>,
                   <<"time", 8>>,
                   <<"pitch_exec_venue", 4>>,
                   <<"pitch_currency", 3>>,
                   <<"flags", 11>> >>]

bats_msg_trading_status ==
    [name |-> "msg_trading_status", len |-> 21,
     names |-> << <<"pitch_symbol", 8>>,
                   <<"pitch_status", 1>>,
                   <<"pitch_reserved", 3>> >>]

bats_msg_statistics ==
    [name |-> "msg_statistics", len |-> 38,
     names |-> << <<"pitch_symbol", 8>>,
                   <<"pitch_price_l", 19>>,
                   <<"pitch_statistic_type", 1>>,
                   <<"pitch_price_determination", 1>> >>]

bats_msg_auction_update ==
    [name |-> "msg_auction_update", len |-> 76,
     names |-> << <<"pitch_symbol", 8>>,
                   <<"pitch_auction_type", 1>>,
                   <<"pitch_reference_price_l", 19>>,
                   <<"pitch_buy_shares_l", 10>>,
                   <<"pitch_sell_shares_l", 10>>,
                   <<"pitch_indicative_price_l", 19>> >>]

bats_msg_auction_summary ==
    [name |-> "msg_auction_summary", len |-> 47,
     names |-> << <<"pitch_symbol", 8>>,
                   <<"pitch_auction_type", 1>>,
                   <<"pitch_price_l", 19>>,
                   <<"pitch_share_l", 10>> >>]

bats_types ==
    Asc.s :> bats_msg_clear @@
    Asc.A :> bats_msg_add_order @@
    Asc.c :> bats_msg_add_order_long @@
    Asc.t :> bats_msg_add_order_exp @@
    Asc.E :> bats_msg_order_executed @@
    Asc.e :> bats_msg_order_executed_long @@
    Asc.X :> bats_msg_order_cancel @@
    Asc.x :> bats_msg_order_cancel_long @@
    Asc.P :> bats_msg_trade @@
    Asc.lq :> bats_msg_trade_long @@
    Asc.B :> bats_msg_trade_break @@
    Asc.O :> bats_msg_trade_report @@
    Asc.H :> bats_msg_trading_status @@
    Asc.Z :> bats_msg_statistics @@
    Asc.k :> bats_msg_auction_update @@
    Asc.j :> bats_msg_auction_summary

-----------------------------------------------------------------------------
(* Direct feed: conversions, flag functions and handler bodies *)

IsDigit(ch) == ch \in Asc.d0..Asc.d9

RECURSIVE LStrip(_)
LStrip(x) == IF x # <<>> /\ Head(x) = Asc.sp THEN LStrip(Tail(x)) ELSE x

RECURSIVE RStrip(_)
RStrip(x) == IF x # <<>> /\ x[Len(x)] = Asc.sp THEN RStrip(SubSeq(x, 1, Len(x) - 1)) ELSE x

RECURSIVE DecVal(_)
\* The number a string of decimal digits stands for.
DecVal(x) == IF x = <<>> THEN 0 ELSE 10 * DecVal(SubSeq(x, 1, Len(x) - 1)) + (x[Len(x)] - Asc.d0)

\* int(x) of a str: surrounding blanks dropped, then decimal digits; ValueError
\* for the empty string and for any other character of the model's alphabet.
int(x) ==
    LET y == RStrip(LStrip(x))
        good == y # <<>> /\ \A k \in 1..Len(y) : IsDigit(y[k])
    IN  [ok |-> good, val |-> IF good THEN DecVal(y) ELSE 0]

\* datetime.strptime(x, "%Y%m%d"): ValueError unless x is four year digits, a
\* month 01..12 and a day 01..31.
strptime_ok(x) ==
    /\ Len(x) = 8
    /\ \A k \in 1..8 : IsDigit(x[k])
    /\ DecVal(SubSeq(x, 5, 6)) \in 1..12
    /\ DecVal(SubSeq(x, 7, 8)) \in 1..31

\* The lookup tables of the flag functions, and the default each passes to get
\* (None, written -1, where it passes none).
bats_flag_tables ==
    [market_mechanism |-> [t |-> (Asc.d1 :> 1 @@ Asc.d2 :> 2 @@ Asc.d3 :> 3 @@ Asc.d4 :> 4),
                           default |-> -1],
     trading_mode |-> [t |-> (Asc.d1 :> 1 @@ Asc.d2 :> 2 @@ Asc.d3 :> 3 @@ Asc.d4 :> 4 @@
                              Asc.d5 :> 5 @@ Asc.d6 :> 6 @@ Asc.d7 :> 7 @@ Asc.O :> 8 @@
                              Asc.K :> 9 @@ Asc.I :> 10 @@ Asc.U :> 11),
                       default |-> -1],
     transaction_category |-> [t |-> (Asc.P :> 1 @@ Asc.D :> 2 @@ Asc.T :> 3 @@
                                      Asc.G :> 4 @@ Asc.F :> 5),
                               default |-> -1],
     negotiated_trade |-> [t |-> (Asc.N :> 1), default |-> 2],
     crossing_trade |-> [t |-> (Asc.X :> 1), default |-> 2],
     modification_indicator |-> [t |-> (Asc.A :> 1 @@ Asc.C :> 2), default |-> 3],
     benchmark_indicator |-> [t |-> (Asc.B :> 1), default |-> 2],
     ex_cum_dividend |-> [t |-> (Asc.E :> 1), default |-> 2],
     offbook_automated_indicator |-> [t |-> (Asc.Q :> 1 @@ Asc.M :> 2), default |-> 3],
     publication_indicator |-> [t |-> (Asc.d1 :> 1), default |-> 2]]

\* The @flag wrapper around flag function f, called with one element of a str:
\* chr() of a str raises TypeError, which the wrapper catches, prints and
\* answers with None (-1).
bats_flag(f, ch) ==
    IF chr_ok(FALSE)
    THEN DictGet(bats_flag_tables[f].t, ch, bats_flag_tables[f].default)
    ELSE -1

\* <<key, flag function, index into data>> of each entry of the dict a
\* parse_*_flags method returns.
bats_parse_order_execution_flag ==
    << <<"market_mechanism", "market_mechanism", 0>>,
       <<"trading_mode", "trading_mode", 1>>,
       <<"excum_dividen", "ex_cum_dividend", 2>> >>

bats_parse_trade_flags ==
    << <<"market_mechanism", "market_mechanism", 0>>,
       <<"trading_mode", "trading_mode", 1>>,
       <<"transaction_category", "transaction_category", 2>>,
       <<"excum_dividen", "ex_cum_dividend", 3>> >>

\* The first entry, trade_timing_indicator, is an inline {"1": 1, "2": 2}
\* .get(data[0], 3) and not a flag function.
bats_parse_trade_report_flags ==
    << <<"market_mechanism", "market_mechanism", 0>>,
       <<"trading_mode", "trading_mode", 1>>,
       <<"transaction_category", "transaction_category", 2>>,
       <<"negotiated_trade", "negotiated_trade", 3>>,
       <<"crossing_trade", "crossing_trade", 4>>,
       <<"modification_indicator", "modification_indicator", 5>>,
       <<"benchmark_indicator", "benchmark_indicator", 6>>,
       <<"excum_dividen", "ex_cum_dividend", 7>>,
       <<"publication_indicator", "publication_indicator", 8>>,
       <<"offbook_automated_indicator", "offbook_automated_indicator", 9>> >>

\* The dict a parse_*_flags method builds: IndexError when an index it reads
\* is beyond the flags field.
bats_parse_flags(d, spec) ==
    [raised |-> \E k \in 1..Len(spec) : spec[k][3] >= Len(d),
     dict |-> [key \in {spec[k][1] : k \in 1..Len(spec)} |->
                 LET k == CHOOSE k \in 1..Len(spec) : spec[k][1] = key
                 IN  IF spec[k][3] < Len(d) THEN bats_flag(spec[k][2], d[spec[k][3] + 1])
                     ELSE -1]]

bats_status_tables ==
    [pitch_trading_status |-> (Asc.T :> 1 @@ Asc.R :> 2 @@ Asc.C :> 3 @@ Asc.S :> 4 @@
                               Asc.N :> 5 @@ Asc.V :> 6 @@ Asc.O :> 7 @@ Asc.E :> 8 @@
                               Asc.H :> 9 @@ Asc.M :> 10 @@ Asc.P :> 11),
     pitch_statistic_type |-> (Asc.C :> 1 @@ Asc.H :> 2 @@ Asc.L :> 3 @@ Asc.O :> 4 @@
                               Asc.P :> 5),
     pitch_price_determination |-> (Asc.d0 :> 1 @@ Asc.d1 :> 2),
     pitch_auction_type |-> (Asc.O :> 1 @@ Asc.C :> 2 @@ Asc.H :> 3 @@ Asc.V :> 4)]

\* dict.get(key) of a dict keyed by 1-character str, called with a slice of a
\* str: the value for a 1-character key of the table, else None (-1).
StrDictGetStr(tbl, key) ==
    IF Len(key) = 1 /\ key[1] \in DOMAIN tbl THEN tbl[key[1]] ELSE -1

\* dict without a key (del fields[key]).
DelKey(f, key) == [n \in DOMAIN f \ {key} |-> f[n]]

\* The body of handler h run on the body characters d: whether it raised and
\* the fields it returned.
bats_handler(h, d) ==
    LET fields == get_fields(d, h.names)
        res(f) == [raised |-> FALSE, fields |-> f]
        exc == [raised |-> TRUE, fields |-> fields]
        with_flags(spec) ==
            LET r == bats_parse_flags(fields["flags"], spec)
            IN  IF r.raised THEN exc ELSE res(DelKey(r.dict @@ fields, "flags"))
        status(f) == (f :> StrDictGetStr(bats_status_tables[f], fields[f])) @@ fields
    IN  CASE h.name \in {"msg_order_executed", "msg_order_executed_long"} ->
                with_flags(bats_parse_order_execution_flag)
          [] h.name \in {"msg_trade", "msg_trade_long"} ->
                with_flags(bats_parse_trade_flags)
          [] h.name = "msg_trade_report" ->
                IF ~strptime_ok(fields["date"]) \/ ~int(fields["time"]).ok THEN exc
                ELSE LET f1 == ("tradetime" :> [date |-> fields["date"],
                                                secs |-> int(fields["time"]).val])
                               @@ DelKey(DelKey(fields, "date"), "time")
                         r  == bats_parse_flags(fields["flags"], bats_parse_trade_report_flags)
                         tt == "trade_timing_indicator" :>
                                   DictGet(Asc.d1 :> 1 @@ Asc.d2 :> 2, fields["flags"][1], 3)
                     IN  IF r.raised THEN exc
                         ELSE res(DelKey(tt @@ r.dict @@ f1, "flags"))
          [] h.name = "msg_trading_status" ->
                \* fields['pitch_trading_status'] is read before it is set: the
                \* layout names the field pitch_status, KeyError
                IF "pitch_trading_status" \in DOMAIN fields
                THEN res(status("pitch_trading_status"))
                ELSE exc
          [] h.name = "msg_statistics" ->
                res(("pitch_price_determination" :>
                        StrDictGetStr(bats_status_tables["pitch_price_determination"],
                                      fields["pitch_price_determination"]))
                    @@ status("pitch_statistic_type"))
          [] h.name \in {"msg_auction_update", "msg_auction_summary"} ->
                res(status("pitch_auction_type"))
          [] OTHER -> res(fields)

\* The wrapper process_msg_header(msg_len) puts around handler h, called with
\* (ts, d).  wq_raises: whether the collaborator's write_quote raises;
\* bstr_raises: whether self.to_bstr, which the except branch calls and the
\* class does not define, raises (it is the subclass's, or missing).  An
\* exception of the handler or of write_quote is caught; one raised by the
\* except branch itself leaves the wrapper.
bats_process_msg_header(h, d, ts, wq_raises, bstr_raises) ==
    LET r == bats_handler(h, Slice(d, 0, h.len))
        f == ("receive_timestamp" :> ts) @@ r.fields
    IN  IF r.raised \/ wq_raises
        THEN [out |-> IF bstr_raises THEN "escaped" ELSE "failed",
              decoded |-> ~r.raised, fields |-> r.fields]
        ELSE [out |-> "forwarded", decoded |-> TRUE, fields |-> f]


-----------------------------------------------------------------------------
(* The input buffers *)

\* Bounds of the model.
MaxBlocks == 2
MaxMsgs == 2
MaxCut == 1
MaxLines == 2
MaxParses == 2

RECURSIVE Concat(_)
Concat(ss) == IF ss = <<>> THEN <<>> ELSE Head(ss) \o Concat(Tail(ss))

RECURSIVE Num(_, _)
\* An unsigned integer v as w little-endian bytes.
Num(v, w) == IF w = 0 THEN <<>> ELSE <<v % 256>> \o Num(v \div 256, w - 1)

McNumeric ==
    {"pitch_time", "pitch_time_offset", "pitch_shares_s", "pitch_shares_l",
     "pitch_shares_ll", "pitch_share_ls", "pitch_e_shares_l", "pitch_r_shares_l",
     "pitch_price_s", "pitch_price_l", "pitch_reference_price_l",
     "pitch_indicative_price_l", "pitch_buy_shares_l", "pitch_sell_shares_l",
     "pitch_trade_timestamp", "gap_sequense", "gap_sequence", "gap_count"}

\* Well-formed content of one field of a multicast message: an offset of 500
\* milliseconds, a small number, a side, documented flag codes, or letters.
McFieldSample(name, w) ==
    IF name = "pitch_time_offset" THEN Num(500, w)
    ELSE IF name \in McNumeric THEN Num(w + 2, w)
    ELSE IF name = "pitch_side" THEN Rep(Asc.B, w)
    ELSE IF name = "flags" THEN Rep(Asc.d1, w)
    ELSE Rep(Asc.A, w)

\* A body of exactly the declared width: the fields of the layout, then blanks
\* up to the declared length.
McBody(h) ==
    LET f == Concat([k \in 1..Len(h.names) |-> McFieldSample(h.names[k][1], h.names[k][2])])
    IN  SubSeq(f \o Rep(Asc.sp, h.len), 1, h.len)

\* A sub-message of type t on the wire: length byte, type byte, body.  A
\* descriptor t >= 256 stands for a later Time message, of type byte t % 256
\* and with another value than the Time message of descriptor 32.
McMsg(t) ==
    IF t \in DOMAIN mc_types
    THEN <<mc_types[t].len + 2, t>> \o McBody(mc_types[t])
    ELSE IF t >= 256 THEN <<6, t % 256>> \o Num(3600000, 4)
    ELSE <<6, t>> \o Rep(Asc.A, 4)

\* block_length as the header states it, for a block whose true length is n.
McLenModes == {"exact", "zero", "tiny", "short", "long"}

McBlockLength(mode, n) ==
    CASE mode = "exact" -> n
      [] mode = "zero" -> 0
      [] mode = "tiny" -> 3
      [] mode = "short" -> n - 2
      [] mode = "long" -> n + 2

\* One block on the wire: bd = [types, mode, extra] is the types of its
\* sub-messages, how its header states the block length, and by how much its
\* header overstates the message count; k is its starting sequence.
McBlock(bd, k) ==
    LET body == Concat([j \in 1..Len(bd.types) |-> McMsg(bd.types[j])])
        n    == McBlockLength(bd.mode, 8 + Len(body))
    IN  <<n % 256, n \div 256, Len(bd.types) + bd.extra, 1>> \o Num(k, 4) \o body

\* The buffer of stream descriptor sd = [blocks, cut]: the blocks one after
\* the other, the last `cut` bytes missing.
McBuffer(sd) ==
    LET all == Concat([k \in 1..Len(sd.blocks) |-> McBlock(sd.blocks[k], k)])
    IN  SubSeq(all, 1, Len(all) - sd.cut)

\* The message types the framing streams are made of: a Time message, an add
\* order, and a type no handler is registered for.
McKinds == {32, 34, 153}

Exact(types) == [types |-> types, mode |-> "exact", extra |-> 0]

SeqsUpTo(S, n) == UNION {[1..m -> S] : m \in 0..n}

\* Streams of one block whose last sub-message is of any type of the catalog
\* (or unknown), after at most a Time message and an add order or a second
\* Time message, the buffer cut short by up to MaxCut bytes.
McCatalogStreams ==
    {[blocks |-> <<Exact(p \o <<t>>)>>, cut |-> c] :
        p \in {<<>>, <<32>>, <<32, 34>>, <<32, 288>>},
        t \in DOMAIN mc_types \cup McKinds,
        c \in 0..MaxCut}

\* msgs split into nb blocks at the cut points c (nondecreasing).
SplitAt(msgs, c, nb) ==
    [j \in 1..nb |->
        SubSeq(msgs, (IF j = 1 THEN 0 ELSE c[j - 1]) + 1,
                     IF j = nb THEN Len(msgs) ELSE c[j])]

Splits(msgs, nb) ==
    {SplitAt(msgs, c, nb) :
        c \in {c \in [1..(nb - 1) -> 0..Len(msgs)] :
                \A j \in 1..(nb - 2) : c[j] <= c[j + 1]}}

\* Streams of up to MaxBlocks blocks holding up to MaxMsgs sub-messages in
\* all, where at most one block's header misstates its length or its count,
\* or else the buffer is cut short by up to MaxCut bytes.
McFramingStreams ==
    LET shapes == UNION {Splits(m, nb) : m \in SeqsUpTo(McKinds, MaxMsgs), nb \in 1..MaxBlocks}
        plain(sh) == [j \in 1..Len(sh) |-> Exact(sh[j])]
    IN  {[blocks |-> plain(sh), cut |-> c] : sh \in shapes, c \in 0..MaxCut}
        \cup
        UNION {{[blocks |-> [plain(sh) EXCEPT ![j] = [types |-> sh[j], mode |-> md, extra |-> ex]],
                 cut |-> 0] :
                    j \in 1..Len(sh), md \in McLenModes, ex \in 0..1} : sh \in shapes}

\* The streams of a session of several parse() calls: the empty buffer, and one
\* well-framed block of up to two Time and add-order messages.
SessionStreams ==
    {[blocks |-> <<>>, cut |-> 0]}
        \cup {[blocks |-> <<Exact(m)>>, cut |-> 0] : m \in SeqsUpTo({32, 34}, 2) \ {<<>>}}

\* The message types whose handler sets flags by position: executed,
\* executed-price, trade short and long, trade report.
McFlagTypes == {35, 36, 43, 65, 50}

\* Streams of one well-framed block in which a message that sets flags comes
\* before a Time message: as the first message, where it fails for want of a
\* base after its flags were set, or behind a Time message, where it decodes.
McFlagStreams ==
    {[blocks |-> <<Exact(p \o <<t, 288>>)>>, cut |-> 0] :
        p \in {<<>>, <<32>>}, t \in McFlagTypes}

\* The empty buffer among them.
McStreams ==
    {[blocks |-> <<>>, cut |-> 0]} \cup McCatalogStreams \cup McFramingStreams
        \cup McFlagStreams


\* Well-formed content of one field of a direct-feed message: digits, a date,
\* a side, documented flag codes, or letters.
BatsFieldSample(name, w) ==
    IF name \in {"pitch_shares_s", "pitch_shares_l", "pitch_share_l", "pitch_price_s",
                 "pitch_price_l", "pitch_reference_price_l", "pitch_indicative_price_l",
                 "pitch_buy_shares_l", "pitch_sell_shares_l", "time"}
    THEN Rep(Asc.d0, w - 1) \o <<Asc.d7>>
    ELSE IF name = "date"
    THEN <<Asc.d2, Asc.d0, Asc.d1, Asc.d5, Asc.d0, Asc.d3, Asc.d2, Asc.d3>>
    ELSE IF name = "pitch_side" THEN Rep(Asc.B, w)
    ELSE IF name \in {"flags", "pitch_price_determination"} THEN Rep(Asc.d1, w)
    ELSE IF name \in {"pitch_status", "pitch_statistic_type", "pitch_auction_type"}
    THEN Rep(Asc.C, w)
    ELSE Rep(Asc.A, w)

\* A body of exactly the declared width: the fields of the layout, then blanks
\* up to the declared length.
BatsBody(h) ==
    LET f == Concat([k \in 1..Len(h.names) |->
                        BatsFieldSample(h.names[k][1], h.names[k][2])])
    IN  SubSeq(f \o Rep(Asc.sp, h.len), 1, h.len)

\* The relative timestamp 0000010.
BatsTs == <<Asc.d0, Asc.d0, Asc.d0, Asc.d0, Asc.d0, Asc.d1, Asc.d0>>

\* One line of the direct feed, by its descriptor ld = [kind, type, gap]:
\*   "msg"    marker, 7 timestamp digits, gap more digits, the type code and a
\*            body of the declared width (4 letters for a type without handler);
\*            gap = 0 is the record layout of the specification;
\*   "nobody" the same with no body;
\*   "badts"  "msg" with a letter among the timestamp digits;
\*   "short"  marker and 7 timestamp digits only;
\*   "marker" the marker only;
\*   "empty"  nothing.
BatsLine(ld) ==
    LET body == IF ld.type \in DOMAIN bats_types THEN BatsBody(bats_types[ld.type])
                ELSE Rep(Asc.A, 4)
    IN  CASE ld.kind = "msg" -> <<0>> \o BatsTs \o Rep(Asc.d0, ld.gap) \o <<ld.type>> \o body
          [] ld.kind = "nobody" -> <<0>> \o BatsTs \o Rep(Asc.d0, ld.gap) \o <<ld.type>>
          [] ld.kind = "badts" ->
                <<0>> \o [BatsTs EXCEPT ![6] = Asc.X] \o Rep(Asc.d0, ld.gap) \o <<ld.type>> \o body
          [] ld.kind = "short" -> <<0>> \o BatsTs
          [] ld.kind = "marker" -> <<0>>
          [] ld.kind = "empty" -> <<>>

\* The buffer: every line followed by a line feed.
BatsBuffer(lds) == Concat([k \in 1..Len(lds) |-> BatsLine(lds[k]) \o <<10>>])

BatsMsgLine(t, g) == [kind |-> "msg", type |-> t, gap |-> g]

\* A clear line, an add-order line and a line of a type without handler, each
\* in both layouts; the malformed lines.
BatsKinds ==
    {BatsMsgLine(t, g) : t \in {Asc.s, Asc.A, Asc.q}, g \in 0..1}
    \cup {[kind |-> "nobody", type |-> Asc.q, gap |-> g] : g \in 0..1}
    \cup {[kind |-> k, type |-> Asc.s, gap |-> 1] : k \in {"badts", "short", "marker", "empty"}}

\* Buffers of two lines, the second of any type of the catalog (or without
\* handler) in either layout, after a clear or an add-order line.
BatsCatalogBuffers ==
    {<<BatsMsgLine(p, 1), BatsMsgLine(t, g)>> :
        p \in {Asc.s, Asc.A}, t \in DOMAIN bats_types \cup {Asc.q}, g \in 0..1}

BatsBuffers == BatsCatalogBuffers \cup SeqsUpTo(BatsKinds, MaxLines)

RECURSIVE Split(_, _)
\* str.split(sep): the pieces between the separators, the last one included.
Split(x, sep) ==
    IF \A k \in 1..Len(x) : x[k] # sep THEN <<x>>
    ELSE LET k == CHOOSE k \in 1..Len(x) : x[k] = sep /\ \A j \in 1..(k - 1) : x[j] # sep
         IN  <<SubSeq(x, 1, k - 1)>> \o Split(SubSeq(x, k + 1, Len(x)), sep)


-----------------------------------------------------------------------------
(* The state machine *)

Init ==
    /\ feed \in {"multicast", "direct"}
    /\ pc = "idle"
    /\ data = <<>>
    /\ pos = 0
    /\ seq_len = 0
    /\ msg_count = 0
    /\ seq = <<>>
    /\ offset = 0
    /\ i = 0
    /\ contract = <<>>
    /\ pitch_time = [set |-> FALSE, val |-> <<>>]
    /\ flags = NoFlags
    /\ lines = <<>>
    /\ written = <<>>
    /\ log = <<>>
    /\ blocks = <<>>
    /\ closed = 0
    /\ input = <<>>

\* A collaborator that files the newest quote first.
write_quote_first(w, q) == <<q>> \o w

\* self.write_quote(*q_map) returning: the collaborator has the quotes in the
\* order of the calls.
write_quote(w, q) == Append(w, q)

\* batsmc parse(bytes_data), up to the loop: an empty buffer returns at once.
mc_parse ==
    /\ feed = "multicast"
    /\ pc = "idle"
    /\ \E sd \in McStreams :
          /\ input' = sd
          /\ data' = McBuffer(sd)
          /\ pc' = IF McBuffer(sd) = <<>> THEN "done" ELSE "header"
    /\ UNCHANGED <<feed, pos, seq_len, msg_count, seq, offset, i, contract,
                   pitch_time, flags, lines, written, log, blocks, closed>>

\* The head of the `while True` loop: the 8-byte header is parsed, a
\* block_length of 0 (or a header that cannot be unpacked) breaks the loop and
\* parse() returns; else offset = 8 and the for loop starts.
mc_header ==
    /\ feed = "multicast"
    /\ pc = "header"
    /\ LET h == parse_sequence_header(Slice(data, 0, 8))
       IN  IF h.seq_len = 0
           THEN /\ pc' = "done"
                /\ UNCHANGED <<seq_len, msg_count, seq, offset, i, blocks>>
           ELSE /\ pc' = "msgs"
                /\ seq_len' = h.seq_len
                /\ msg_count' = h.msg_count
                /\ seq' = h.seq
                /\ offset' = 8
                /\ i' = 0
                /\ blocks' = Append(blocks, [start |-> pos, seq_len |-> h.seq_len,
                                             msg_count |-> h.msg_count, seq |-> h.seq])
    /\ UNCHANGED <<feed, data, pos, contract, pitch_time, flags, lines, written,
                   log, closed, input>>

\* One iteration of `for i in range(0, msg_count)`: self.contract = seq, the
\* length and type bytes are unpacked (struct.error, which nothing catches,
\* when fewer than 2 bytes are left at offset), the handler of a registered
\* type is called with data[offset+2 : offset+mlen], and offset += mlen.
mc_message ==
    /\ feed = "multicast"
    /\ pc = "msgs"
    /\ i < msg_count
    /\ contract' = seq
    /\ LET pre == Slice(data, offset, offset + 2)
       IN  IF Len(pre) # 2
           THEN /\ pc' = "raised"
                /\ UNCHANGED <<offset, i, pitch_time, flags, written, log>>
           ELSE LET mlen  == pre[1]
                    mtype == pre[2]
                    body  == Slice(data, offset + 2, offset + mlen)
                    step(out, dec, why, hname) ==
                        [blk |-> Len(blocks), off |-> offset, at |-> pos + offset,
                         mlen |-> mlen, mtype |-> mtype, handler |-> hname,
                         blen |-> Len(body), out |-> out, decoded |-> dec,
                         cause |-> why]
                IN  /\ pc' = "msgs"
                    /\ offset' = mc_next_offset(offset, mlen)
                    /\ i' = i + 1
                    /\ IF mtype \in DOMAIN mc_types
                       THEN \E wq_raises \in BOOLEAN :
                              \E r \in {mc_process_msg_header(mc_types[mtype], body, flags,
                                                pitch_time, seq, wq_raises)} :
                                  /\ pitch_time' = r.pitch_time
                                  /\ flags' = r.flags
                                  /\ written' = IF r.out = "forwarded"
                                                THEN write_quote(written, r.q) ELSE written
                                  /\ log' = Append(log, step(r.out, r.decoded, r.cause,
                                                             mc_types[mtype].name))
                       ELSE /\ log' = Append(log, step("unknown", FALSE, "none", "none"))
                            /\ UNCHANGED <<pitch_time, flags, written>>
    /\ UNCHANGED <<feed, data, pos, seq_len, msg_count, seq, lines, blocks,
                   closed, input>>

\* After the for loop: data = data[seq_len:], close_quotes(), and back to the
\* head of the while loop.
mc_block_end ==
    /\ feed = "multicast"
    /\ pc = "msgs"
    /\ i >= msg_count
    /\ data' = mc_next_data(data, seq_len, offset)
    /\ pos' = pos + (Len(data) - Len(data'))
    /\ closed' = closed + 1
    /\ pc' = "header"
    /\ UNCHANGED <<feed, seq_len, msg_count, seq, offset, i, contract, pitch_time,
                   flags, lines, written, log, blocks, input>>

\* map_quote of the direct feed: a constant tuple.
bats_map_quote == [contract |-> "", ts |-> 0, entry |-> "", x |-> ""]

\* bats parse(bytes_data), up to the loop: the buffer is decoded and split.
bats_parse ==
    /\ feed = "direct"
    /\ pc = "idle"
    /\ \E lds \in BatsBuffers :
          /\ input' = lds
          /\ lines' = Split(BatsBuffer(lds), 10)
    /\ pc' = "lines"
    /\ UNCHANGED <<feed, data, pos, seq_len, msg_count, seq, offset, i, contract,
                   pitch_time, flags, written, log, blocks, closed>>

\* The type code parse() dispatches on, msg[8] of the line without its marker.
bats_type_index == 8

\* One iteration of `for msg in data.split('\n')`: an empty line is skipped;
\* else the marker is dropped, int(msg[0:7]) and msg[8] are evaluated (their
\* ValueError and IndexError are caught by nothing), and the handler of a
\* registered type is called with msg[9:].
bats_line ==
    /\ feed = "direct"
    /\ pc = "lines"
    /\ lines # <<>>
    /\ lines' = Tail(lines)
    /\ i' = i + 1
    /\ IF Head(lines) = <<>>
       THEN UNCHANGED <<pc, written, log>>
       ELSE LET msg == Tail(Head(lines))
                ts  == int(Slice(msg, 0, 7))
                step(mtype, hname, out, dec, f) ==
                    [line |-> i, mtype |-> mtype, handler |-> hname, out |-> out,
                     decoded |-> dec, fields |-> f]
            IN  IF ~ts.ok \/ bats_type_index >= Len(msg)
                THEN /\ pc' = "raised"
                     /\ log' = Append(log, step(-1, "none", "escaped", FALSE, NoAttrs))
                     /\ UNCHANGED written
                ELSE LET m_type == msg[bats_type_index + 1]
                     IN  IF m_type \in DOMAIN bats_types
                         THEN \E wq_raises \in BOOLEAN, bstr_raises \in BOOLEAN :
                                LET h == bats_types[m_type]
                                    r == bats_process_msg_header(
                                            h, Drop(msg, bats_type_index + 1), ts.val,
                                            wq_raises, bstr_raises)
                                IN  /\ pc' = IF r.out = "escaped" THEN "raised" ELSE "lines"
                                    /\ written' = IF r.out = "forwarded"
                                                  THEN write_quote(written, bats_map_quote)
                                                  ELSE written
                                    /\ log' = Append(log, step(m_type, h.name, r.out,
                                                               r.decoded, r.fields))
                         ELSE /\ log' = Append(log, step(m_type, "none", "unknown",
                                                         FALSE, NoAttrs))
                              /\ UNCHANGED <<pc, written>>
    /\ UNCHANGED <<feed, data, pos, seq_len, msg_count, seq, offset, contract,
                   pitch_time, flags, blocks, closed, input>>

\* After the for loop: close_quotes(), and parse() returns.
bats_close ==
    /\ feed = "direct"
    /\ pc = "lines"
    /\ lines = <<>>
    /\ closed' = closed + 1
    /\ pc' = "done"
    /\ UNCHANGED <<feed, data, pos, seq_len, msg_count, seq, offset, i, contract,
                   pitch_time, flags, lines, written, log, blocks, input>>

Next ==
    \/ mc_parse
    \/ mc_header
    \/ mc_message
    \/ mc_block_end
    \/ bats_parse
    \/ bats_line
    \/ bats_close

Spec == Init /\ [][Next]_vars

-----------------------------------------------------------------------------
(* The multicast walk to its end *)

\* The message types of the streams the walk is followed to its end on: a Time
\* message and a type no handler is registered for.
LiveKinds == {32, 153}

\* The framing streams made of these types alone: well framed, cut short, or
\* with a block_length or a message count that is not the true one.
LiveStreams ==
    {sd \in McFramingStreams :
        \A k \in 1..Len(sd.blocks) : \A j \in 1..Len(sd.blocks[k].types) :
            sd.blocks[k].types[j] \in LiveKinds}

LiveInit ==
    /\ Init
    /\ feed = "multicast"

\* batsmc parse(bytes_data), up to the loop, on one of these streams.
mc_parse_live ==
    /\ feed = "multicast"
    /\ pc = "idle"
    /\ \E sd \in LiveStreams :
          /\ input' = sd
          /\ data' = McBuffer(sd)
          /\ pc' = IF McBuffer(sd) = <<>> THEN "done" ELSE "header"
    /\ UNCHANGED <<feed, pos, seq_len, msg_count, seq, offset, i, contract,
                   pitch_time, flags, lines, written, log, blocks, closed>>

LiveNext ==
    \/ mc_parse_live
    \/ mc_header
    \/ mc_message
    \/ mc_block_end

\* The interpreter keeps running parse() and the collaborator's calls return:
\* a step that can be taken is taken.
SpecLive == LiveInit /\ [][LiveNext]_vars /\ WF_vars(LiveNext)

-----------------------------------------------------------------------------
(* Sessions: several parse() calls on one multicast Exchange *)

SessionInit ==
    /\ Init
    /\ feed = "multicast"

\* parse(bytes_data) called on an instance that is not inside parse(), for the
\* first time or again: the buffer is new, the attributes of the instance
\* (pitch_time, flags, contract) are what the calls before left.  `input`
\* notes which call it is and how many steps were logged before it.
mc_parse_session ==
    /\ feed = "multicast"
    /\ pc \in {"idle", "done", "raised"}
    /\ (IF input = <<>> THEN 0 ELSE input.call) < MaxParses
    /\ \E sd \in SessionStreams :
          /\ input' = [blocks |-> sd.blocks, cut |-> sd.cut,
                        call |-> (IF input = <<>> THEN 0 ELSE input.call) + 1,
                        from |-> Len(log)]
          /\ data' = McBuffer(sd)
          /\ pc' = IF McBuffer(sd) = <<>> THEN "done" ELSE "header"
    /\ pos' = 0
    /\ UNCHANGED <<feed, seq_len, msg_count, seq, offset, i, contract,
                   pitch_time, flags, lines, written, log, blocks, closed>>

SessionNext ==
    \/ mc_parse_session
    \/ mc_header
    \/ mc_message
    \/ mc_block_end

SpecSession == SessionInit /\ [][SessionNext]_vars

-----------------------------------------------------------------------------
(* Single calls: one function of the multicast parser applied to one input *)

\* A fresh multicast Exchange on which one function is about to be called.
CallsInit ==
    /\ feed = "calls"
    /\ pc = "idle"
    /\ data = <<>>
    /\ pos = 0
    /\ seq_len = 0
    /\ msg_count = 0
    /\ seq = <<>>
    /\ offset = 0
    /\ i = 0
    /\ contract = <<>>
    /\ pitch_time = [set |-> FALSE, val |-> <<>>]
    /\ flags = NoFlags
    /\ lines = <<>>
    /\ written = <<>>
    /\ log = <<>>
    /\ blocks = <<>>
    /\ closed = 0
    /\ input = <<>>

\* self.flags = Flags() and then one @flag function called with one byte, as a
\* parse_*_flags method calls it with data[k].
mc_flag_call ==
    /\ feed = "calls"
    /\ pc = "idle"
    /\ \E f \in DOMAIN mc_flag_tables : \E byte \in 0..255 :
          /\ flags' = mc_flag(Flags, f, byte)
          /\ input' = [call |-> "flag", f |-> f, byte |-> byte]
    /\ pc' = "done"
    /\ UNCHANGED <<feed, data, pos, seq_len, msg_count, seq, offset, i, contract,
                   pitch_time, lines, written, log, blocks, closed>>

\* A well-formed body of layout h whose flags field is the byte b and whose
\* price_determination field, where the layout has one, is the byte b2.
McBodyWith(h, b, b2) ==
    Concat([k \in 1..Len(h.names) |->
                IF h.names[k][1] = "flags" THEN Rep(b, h.names[k][2])
                ELSE IF h.names[k][1] = "price_determination" THEN Rep(b2, h.names[k][2])
                ELSE McFieldSample(h.names[k][1], h.names[k][2])])

\* The message types whose handler decodes a one-byte status inline.
McStatusTypes == {2, 4, 49, 52}

\* The wrapper up to the return of the handler: self.flags = Flags(),
\* MsgBody(data[0:msg_len]) and func(self, msg_data), for a handler that decodes
\* a status byte itself.
mc_status_call ==
    /\ feed = "calls"
    /\ pc = "idle"
    /\ \E t \in McStatusTypes : \E b \in 0..255 : \E b2 \in {Asc.d0, Asc.d1, Asc.sp} :
          \E r \in {mc_handler(mc_types[t], McBodyWith(mc_types[t], b, b2), Flags, pitch_time)} :
              /\ flags' = r.flags
              /\ input' = [call |-> "status", handler |-> mc_types[t].name,
                            byte |-> b, byte2 |-> b2, raised |-> r.raised]
    /\ pc' = "done"
    /\ UNCHANGED <<feed, data, pos, seq_len, msg_count, seq, offset, i, contract,
                   pitch_time, lines, written, log, blocks, closed>>

\* Raw price values: small ones, the largest a 2-byte field holds, the first
\* it does not hold, and the two of the scaling example.
PriceSamples == {0, 15000, 65535, 65536, 150000, 15000000}

\* A well-formed body of layout h whose price field carries the raw value r:
\* the low-order bytes of r, as many as the field is wide.
McBodyPrice(h, r) ==
    Concat([k \in 1..Len(h.names) |->
                IF h.names[k][1] \in {"pitch_price_s", "pitch_price_l"}
                THEN Num(r, h.names[k][2])
                ELSE McFieldSample(h.names[k][1], h.names[k][2])])

\* The Add Order messages with a short (0x22) and with a long (0x40) price.
McPriceTypes == {34, 64}

\* One Add Order message through its wrapper, after a Time message has set the
\* base: handler, map_quote and write_quote.
mc_price_call ==
    /\ feed = "calls"
    /\ pc = "idle"
    /\ \E t \in McPriceTypes : \E raw \in PriceSamples :
          \E r \in {mc_process_msg_header(mc_types[t], McBodyPrice(mc_types[t], raw), flags,
                                          [set |-> TRUE, val |-> Num(6, 4)], <<1>>, FALSE)} :
              /\ r.out = "forwarded"
              /\ written' = write_quote(written, r.q)
              /\ flags' = r.flags
              /\ pitch_time' = r.pitch_time
              /\ input' = [call |-> "price", handler |-> mc_types[t].name, raw |-> raw]
    /\ pc' = "done"
    /\ UNCHANGED <<feed, data, pos, seq_len, msg_count, seq, offset, i, contract,
                   lines, log, blocks, closed>>

CallsNext ==
    \/ mc_flag_call
    \/ mc_status_call
    \/ mc_price_call

SpecCalls == CallsInit /\ [][CallsNext]_vars

-----------------------------------------------------------------------------
(* Properties of the multicast walk *)

\* The message step the last transition took, when it took one.
Stepped == Len(log') = Len(log) + 1
LastStep == log'[Len(log')]

\* C1: in the multicast parser a sub-message whose handler, map_quote or
\* write_quote raises is caught by the wrapper: nothing is forwarded for it,
\* parse() stays in the for loop, and the block offset advances by the length
\* byte of that message, exactly as it does for a message that is forwarded.
C1_FailedMessageIsIsolated ==
    [][(feed = "multicast" /\ Stepped /\ LastStep.out \in {"failed", "forwarded"})
          => /\ pc' = "msgs"
             /\ i' = i + 1
             /\ offset' = offset + LastStep.mlen
             /\ LastStep.out = "failed" => written' = written]_vars

\* A message failed inside map_quote and the next message of the same block
\* was forwarded from the offset behind it.
C1_Witness ==
    \E k \in 1..(Len(log) - 1) :
        /\ feed = "multicast"
        /\ log[k].out = "failed"
        /\ log[k].cause = "map_quote"
        /\ log[k + 1].blk = log[k].blk
        /\ log[k + 1].off = log[k].off + log[k].mlen
        /\ log[k + 1].out = "forwarded"

-----------------------------------------------------------------------------
(* Properties of the direct walk and of the catalogs *)

\* The buffer of the direct feed is made of message lines only, so that the
\* k-th step is the step of the k-th line.
BatsMsgLinesOnly ==
    /\ feed = "direct"
    /\ pc # "idle"
    /\ \A k \in 1..Len(input) : input[k].kind \in {"msg", "nobody"}

\* The buffer of the multicast feed is one block whose header states its
\* length and its count as they are, so that the k-th step is the step of the
\* k-th sub-message.
McOneExactBlock ==
    /\ feed = "multicast"
    /\ pc # "idle"
    /\ Len(input.blocks) = 1
    /\ input.blocks[1].mode = "exact"
    /\ input.blocks[1].extra = 0

\* C2: in the direct-feed parser no line aborts parse(): whatever the line
\* (a malformed prefix, a handler or a collaborator call that raises), no
\* exception leaves parse(), and when parse() is over every line that is not
\* empty has been stepped through.
C2_NoLineAbortsParse ==
    feed = "direct" =>
        /\ pc # "raised"
        /\ pc = "done" =>
              Len(log) = Cardinality({k \in 1..Len(input) : input[k].kind # "empty"})

\* C3: for every entry of the direct-feed catalog and of the multicast
\* catalog, the widths of the handler's layout add up to the length the
\* handler is declared with (looked at for the entry of each message that
\* reaches a handler).
C3_LayoutWidthIsDeclaredLength ==
    \A k \in 1..Len(log) :
        log[k].handler # "none" =>
            LET h == IF feed = "direct" THEN bats_types[log[k].mtype]
                     ELSE mc_types[log[k].mtype]
            IN  LayoutWidth(h.names) = h.len

\* C4: for every type of either catalog, the handler run on a body of exactly
\* the declared width with well-formed fields does not raise and returns its
\* fields.
C4_WellFormedBodyDecodes ==
    /\ (McOneExactBlock /\ input.cut = 0) =>
          \A k \in 1..Len(log) :
              (log[k].handler # "none" /\ log[k].blen = mc_types[log[k].mtype].len)
                  => log[k].decoded
    /\ (BatsMsgLinesOnly /\ \A k \in 1..Len(input) : input[k] = BatsMsgLine(input[k].type, 1)) =>
          \A k \in 1..Len(log) : log[k].handler # "none" => log[k].decoded

\* C5: in the direct-feed parser, a record laid out as marker, 7 timestamp
\* digits, type code, body is dispatched on the byte that follows the 7
\* digits, with the body starting behind it: each such line is stepped under
\* its own type code, and a clear line decodes to pitch_symbol = its 8 body
\* characters.
C5_TypeCodeFollowsTimestamp ==
    (BatsMsgLinesOnly /\ \A k \in 1..Len(input) : input[k] = BatsMsgLine(input[k].type, 0)) =>
        \A k \in 1..Len(log) :
            /\ log[k].mtype = input[k].type
            /\ input[k].type = Asc.s =>
                  /\ log[k].handler = "msg_clear"
                  /\ log[k].decoded
                  /\ log[k].fields["pitch_symbol"] = Rep(Asc.A, 8)

\* The sub-message steps taken in block b.
StepsOfBlock(b) == {k \in 1..Len(log) : log[k].blk = b}

\* C6: in multicast parse(), a block whose header declares message_count = N
\* has had exactly N sub-message steps once parse() has left the block
\* (gone on to a later block, returned, or ended), whatever their outcomes.
C6_CountIsStepsOfBlock ==
    \A b \in 1..Len(blocks) :
        (b < Len(blocks) \/ pc \in {"header", "done", "raised"})
            => Cardinality(StepsOfBlock(b)) = blocks[b].msg_count

\* C7: in multicast parse(), the header of block k+1 is read exactly
\* block_length(k) bytes behind the start of the header of block k, whatever
\* the lengths and the outcomes of the sub-messages of block k.
C7_NextHeaderAtBlockLength ==
    \A b \in 1..(Len(blocks) - 1) :
        blocks[b + 1].start = blocks[b].start + blocks[b].seq_len

\* A second header was read behind a block in which a message failed and
\* whose sub-message lengths do not add up to its block_length.
C7_Witness ==
    /\ Len(blocks) >= 2
    /\ \E k \in StepsOfBlock(1) :
          /\ log[k].out = "failed"
          /\ \E j \in StepsOfBlock(1) :
                /\ \A n \in StepsOfBlock(1) : n <= j
                /\ log[j].off + log[j].mlen # blocks[1].seq_len

\* C8: a message whose type code is not in the catalog reaches no handler and
\* does not stop the parse: its step is the step of an unknown type, in the
\* multicast feed (the type byte of the sub-message) and in the direct feed
\* (the type code of the record).
C8_UnknownTypeIsSkipped ==
    /\ feed = "multicast" =>
          \A k \in 1..Len(log) :
              log[k].mtype \notin DOMAIN mc_types
                  => log[k].out = "unknown" /\ log[k].handler = "none"
    /\ BatsMsgLinesOnly =>
          \A k \in 1..Len(log) :
              (input[k].gap = 0 /\ input[k].type \notin DOMAIN bats_types)
                  => log[k].out = "unknown" /\ log[k].handler = "none"

\* C9: in multicast parse(), no exception reaches the caller when the bytes
\* run out, at a block header or at the prefix of a sub-message.
C9_OutOfBytesEndsCleanly ==
    feed = "multicast" => pc # "raised"

\* C10: for a multicast block whose last sub-message is of a catalog type and
\* whose buffer ends one byte short, parse() does not raise, the last message
\* fails and is the only one whose decoding fails, and nothing is forwarded
\* for it.
C10_TruncatedLastMessageFails ==
    (/\ McOneExactBlock
     /\ input.cut = 1
     /\ input.blocks[1].types # <<>>
     /\ input.blocks[1].types[Len(input.blocks[1].types)] \in DOMAIN mc_types)
        => /\ pc # "raised"
           /\ \A k \in 1..Len(log) :
                 IF k = Len(input.blocks[1].types)
                 THEN log[k].out = "failed"
                 ELSE log[k].cause \in {"none", "write_quote"}

-----------------------------------------------------------------------------
(* Order of the forwarded messages *)

\* The steps whose message was handed to the collaborator.
Forwarded == {k \in 1..Len(log) : log[k].out = "forwarded"}

\* The place of forwarded step k among the forwarded steps.
Rank(k) == Cardinality({j \in Forwarded : j <= k})

-----------------------------------------------------------------------------
(* The Time-message base *)

\* The Time messages stepped through before step k.
TimeSteps(k) == {j \in 1..(k - 1) : log[j].handler = "msg_time"}

\* The latest of them.
LastTime(k) == CHOOSE j \in TimeSteps(k) : \A n \in TimeSteps(k) : n <= j

\* The bytes the Time message of step j carries as pitch_time: the first 4
\* bytes of its body in the buffer.
TimeVal(j) ==
    Slice(Slice(McBuffer(input), log[j].at + 2, log[j].at + log[j].mlen), 0, 4)

\* C12: in the multicast parser the base is the value of the latest Time
\* message dispatched so far and of nothing else (no base before the first
\* one), and every message forwarded with a pitch_time_offset is timestamped
\* with the base of the latest Time message before it.
C12_BaseIsLatestTimeMessage ==
    (feed = "multicast" /\ pc # "idle") =>
        /\ pitch_time = IF TimeSteps(Len(log) + 1) = {}
                        THEN [set |-> FALSE, val |-> <<>>]
                        ELSE [set |-> TRUE, val |-> TimeVal(LastTime(Len(log) + 1))]
        /\ \A k \in Forwarded :
              ~written[Rank(k)].ts.now =>
                  /\ TimeSteps(k) # {}
                  /\ written[Rank(k)].ts.base = UInt(TimeVal(LastTime(k)))

\* A message with a pitch_time_offset was forwarded after two Time messages
\* of different values, with the base of the second.
C12_Witness ==
    /\ feed = "multicast"
    /\ \E k \in Forwarded : \E j \in TimeSteps(k) :
          /\ ~written[Rank(k)].ts.now
          /\ j # LastTime(k)
          /\ TimeVal(j) # TimeVal(LastTime(k))
          /\ written[Rank(k)].ts.base = UInt(TimeVal(LastTime(k)))

\* C13: in the multicast parser the timestamp of a message is midnight + base
\* + offset with the base and the offset both in milliseconds: base 3600000
\* and offset 500 give midnight + 3600.5 seconds.
C13_BaseAndOffsetInMilliseconds ==
    (McOneExactBlock /\ input.cut = 0) =>
        \A k \in Forwarded :
            LET ts == written[Rank(k)].ts
            IN  ~ts.now =>
                    get_ts_seconds(ts) =
                        [sec |-> (LE(ts.base) + LE(ts.off)) \div 1000,
                         ms  |-> (LE(ts.base) + LE(ts.off)) % 1000]

-----------------------------------------------------------------------------
(* Flag and status decoding *)

\* The parse_*_flags method the handler of that name calls in the direct
\* feed (none: the empty one).
BatsFlagSpec(hname) ==
    IF hname \in {"msg_order_executed", "msg_order_executed_long"}
    THEN bats_parse_order_execution_flag
    ELSE IF hname \in {"msg_trade", "msg_trade_long"} THEN bats_parse_trade_flags
    ELSE IF hname = "msg_trade_report" THEN bats_parse_trade_report_flags
    ELSE <<>>

\* Every line of the direct-feed buffer is a message line with one character
\* between the timestamp and the type code, the layout parse() reads.
BatsReadableLines ==
    /\ BatsMsgLinesOnly
    /\ \A k \in 1..Len(input) : input[k] = BatsMsgLine(input[k].type, 1)

\* C14: in the direct-feed parser every flag function, called as the parser
\* calls it with one character of the flags field, returns the documented
\* enumerant for a documented code and the default of its table for any other
\* code.
C14_BatsFlagFunctionsDecode ==
    BatsReadableLines =>
        \A k \in 1..Len(log) :
            (log[k].decoded /\ log[k].handler # "none") =>
                LET h    == bats_types[log[k].mtype]
                    spec == BatsFlagSpec(h.name)
                IN  \A n \in 1..Len(spec) :
                        log[k].fields[spec[n][1]] =
                            DictGet(bats_flag_tables[spec[n][2]].t,
                                    get_fields(BatsBody(h), h.names)["flags"][spec[n][3] + 1],
                                    bats_flag_tables[spec[n][2]].default)

-----------------------------------------------------------------------------
(* Properties of the flag and field decoders of the multicast parser *)

\* C15: each positional flag function of the multicast parser, given one byte,
\* stores the documented enumerant for a documented code and 0 for any other
\* byte; the stored value is the table's value whatever the width of the slot,
\* and no other slot of the flag set changes.
C15_McFlagFunctionsStore ==
    (pc = "done" /\ input.call = "flag") =>
        /\ flags.present
        /\ flags.b[input.f] = DictGet(mc_flag_tables[input.f], input.byte, 0)
        /\ \A g \in DOMAIN FlagsBits \ {input.f} : flags.b[g] = 0
        /\ flags.attrs = NoAttrs

\* trading_mode called with 'U', the largest enumerant of any table (11).
C15_Witness ==
    /\ pc = "done"
    /\ input.call = "flag"
    /\ input.f = "trading_mode"
    /\ input.byte = Asc.U
    /\ flags.b["trading_mode"] = 11

\* C16: the status tables decoded inline by the multicast handlers
\* (login_status, gap_status, trading_status, statistic type and price
\* determination) map every documented code byte of the message body to its
\* documented nonzero enumerant and every other byte to 0.
C16_McStatusTablesDecode ==
    (pc = "done" /\ input.call = "status") =>
        /\ ~input.raised
        /\ input.handler = "msg_login_response" =>
              flags.b["login_status"] = DictGet(mc_status_tables["login_status"], input.byte, 0)
        /\ input.handler = "msg_gap_response" =>
              flags.b["gap_status"] = DictGet(mc_status_tables["gap_status"], input.byte, 0)
        /\ input.handler = "msg_trading_status" =>
              flags.b["trading_status"] = DictGet(mc_status_tables["trading_status"], input.byte, 0)
        /\ input.handler = "msg_statistics" =>
              /\ flags.attrs["statistic_type"] =
                    DictGet(mc_status_tables["statistic_type"], input.byte, 0)
              /\ flags.attrs["pitch_price_determination"] =
                    DictGet(mc_status_tables["pitch_price_determination"], input.byte2, 0)

\* The <<flag table, position in the flags field>> pairs a parse_*_flags
\* method of the multicast parser reads: function k is called with data[k-1].
McFlagReads(funcs) == {<<funcs[k], k - 1>> : k \in 1..Len(funcs)}

\* The same for the direct feed; parse_trade_report_flags also reads data[0]
\* for its inline trade_timing_indicator table.
BatsFlagReads(hname) ==
    {<<BatsFlagSpec(hname)[k][2], BatsFlagSpec(hname)[k][3]>> : k \in 1..Len(BatsFlagSpec(hname))}
        \cup (IF hname = "msg_trade_report" THEN {<<"trade_timing_indicator", 0>>} ELSE {})

\* The pairs read by the decoder the handler of that name calls, in either feed.
FlagReads(fd, hname) ==
    IF fd = "direct" THEN BatsFlagReads(hname)
    ELSE IF hname \in {"msg_order_executed", "msg_order_executed_price"}
    THEN McFlagReads(mc_parse_order_execution_flag)
    ELSE IF hname \in {"msg_trade_short", "msg_trade_long"}
    THEN McFlagReads(mc_parse_trade_flags)
    ELSE IF hname = "msg_trade_report" THEN McFlagReads(mc_parse_trade_report_flags)
    ELSE {}

\* The number of positions the composite flags field of a message kind has.
FlagPositions(hname) ==
    IF hname \in {"msg_order_executed", "msg_order_executed_long", "msg_order_executed_price"}
    THEN 3
    ELSE IF hname \in {"msg_trade", "msg_trade_short", "msg_trade_long"} THEN 4
    ELSE IF hname = "msg_trade_report" THEN 11
    ELSE 0

\* C17: a composite flags field is decoded with one distinct position per flag
\* table: 3 positions for order-execution flags, 4 for trade flags, 11 for
\* trade-report flags, no position read for two tables and none left unread,
\* and both feeds give the same table to the same trade-report position.
C17_OnePositionPerFlagTable ==
    \A k \in 1..Len(log) :
        FlagPositions(log[k].handler) > 0 =>
            LET R == FlagReads(feed, log[k].handler)
                w == FlagPositions(log[k].handler)
            IN  /\ {r[2] : r \in R} = 0..(w - 1)
                /\ \A r1, r2 \in R : r1[2] = r2[2] => r1 = r2
                /\ \A r1, r2 \in R : r1[1] = r2[1] => r1 = r2
                /\ log[k].handler = "msg_trade_report" =>
                      FlagReads("direct", "msg_trade_report")
                          = FlagReads("multicast", "msg_trade_report")

\* The value a raw number below 2^31 has as an unpacked unsigned integer.
RawValue(r) == UInt(Num(r, 4))

\* The forwarded entry of a price call has the price raw/den.
PriceIs(raw, den) ==
    /\ Len(written) = 1
    /\ "price" \in DOMAIN written[1].entry
    /\ written[1].entry["price"] = [num |-> RawValue(raw), den |-> den]

\* C18: a short price field (2-byte unsigned) holding the raw value r, which
\* is below 65536, decodes to r/100, and a long price field holding the raw
\* value r decodes to r/10000; in particular long raw 15000000 decodes to
\* 1500.0000.
C18_PriceScaledByFixedDivisor ==
    (pc = "done" /\ input.call = "price") =>
        /\ (input.handler = "msg_add_order" /\ input.raw < 65536) => PriceIs(input.raw, 100)
        /\ input.handler = "msg_add_order_long" => PriceIs(input.raw, 10000)

\* A short price of raw 15000 forwarded as 150.00.
C18_Witness ==
    /\ pc = "done"
    /\ input.call = "price"
    /\ input.handler = "msg_add_order"
    /\ input.raw = 15000
    /\ PriceIs(15000, 100)

\* C18 as stated: every raw value decodes to raw/100 in a short and raw/10000
\* in a long price field, short raw 150000 to 1500.00 among them.
C18_AsStated ==
    (pc = "done" /\ input.call = "price") =>
        /\ input.handler = "msg_add_order" => PriceIs(input.raw, 100)
        /\ input.handler = "msg_add_order_long" => PriceIs(input.raw, 10000)

\* The field of its layout in which a message kind carries its share quantity
\* (executed-price: the executed shares), "" for a kind that carries none.
ShareField(hname) ==
    IF hname \in {"msg_add_order", "msg_reduce_size_short", "msg_modify_order_short",
                  "msg_trade_short"} THEN "pitch_shares_s"
    ELSE IF hname \in {"msg_add_order_long", "msg_order_executed", "msg_reduce_size_long",
                       "msg_modify_order_long", "msg_trade_long"} THEN "pitch_shares_l"
    ELSE IF hname = "msg_add_order_exp" THEN "pitch_share_ls"
    ELSE IF hname = "msg_order_executed_price" THEN "pitch_e_shares_l"
    ELSE IF hname = "msg_trade_report" THEN "pitch_shares_ll"
    ELSE ""

\* C19: in the multicast parser, for every message kind whose layout carries a
\* share quantity, the entry forwarded to the collaborator has 'size' equal to
\* the unsigned integer value of that field, unscaled.
C19_SizeIsShareQuantity ==
    (McOneExactBlock /\ input.cut = 0) =>
        \A k \in Forwarded :
            ShareField(log[k].handler) # "" =>
                LET h == mc_types[log[k].mtype]
                    f == get_fields(McBody(h), h.names)
                IN  /\ ShareField(h.name) \in DOMAIN f
                    /\ "size" \in DOMAIN written[Rank(k)].entry
                    /\ written[Rank(k)].entry["size"] =
                          [num |-> UInt(f[ShareField(h.name)]), den |-> 1]

-----------------------------------------------------------------------------
(* Block bounds of the multicast walk *)

\* The steps of the multicast walk whose body was handed to a handler, and the
\* place in the buffer behind the last byte handed over.
Dispatched == {k \in 1..Len(log) : log[k].handler # "none" /\ log[k].blen > 0}

BodyEnd(k) == log[k].at + 2 + log[k].blen

\* C20: in multicast parse() every byte range handed to a handler for a
\* sub-message of a block lies within that block, between the start of its
\* header and start + block_length, and no byte handed over for a sub-message
\* of one block is read again as part of a later block.
C20_SubMessagesWithinBlock ==
    feed = "multicast" =>
        \A k \in Dispatched :
            /\ blocks[log[k].blk].start <= log[k].at + 2
            /\ BodyEnd(k) <= blocks[log[k].blk].start + blocks[log[k].blk].seq_len
            /\ \A j \in 1..Len(blocks) : j > log[k].blk => BodyEnd(k) <= blocks[j].start

-----------------------------------------------------------------------------
(* Session state across parse() calls *)

\* The steps of the parse() call under way (or of the last one made).
StepsOfCall == {k \in 1..Len(log) : k > input.from}

\* C21: at the start of every multicast parse() call no Time base of an
\* earlier call is in effect, and a message of the call that is forwarded with
\* a timestamp made of base and offset comes after a Time message of the same
\* call.
C21_BaseIsPerParseCall ==
    (feed = "multicast" /\ input # <<>>) =>
        /\ StepsOfCall = {} => ~pitch_time.set
        /\ \A k \in StepsOfCall \cap Forwarded :
              ~written[Rank(k)].ts.now =>
                  \E j \in StepsOfCall :
                      j < k /\ log[j].handler = "msg_time" /\ log[j].decoded

-----------------------------------------------------------------------------
(* Termination of the multicast parse() *)

\* parse() is over: it returned, or an exception left it.
mc_parse_over == pc \in {"done", "raised"}

\* C22: the multicast parse() terminates on every finite buffer: every outer
\* iteration with a nonzero block_length leaves a strictly shorter buffer
\* (also a block_length below the 8 bytes of the header), every inner
\* iteration uses up one of the message_count rounds whatever length the
\* sub-message declares, and parse() comes to its end.
C22_ParseTerminates ==
    /\ [][mc_block_end => (seq_len > 0 /\ Len(data') < Len(data))]_vars
    /\ [][mc_message => (pc' = "raised" \/ (i' = i + 1 /\ i' <= msg_count))]_vars
    /\ <>mc_parse_over

\* parse() returned after a sub-message that declared length 0: the next
\* round of the same block was taken at the same offset.
C22_Witness ==
    /\ feed = "multicast"
    /\ pc = "done"
    /\ \E k \in 1..(Len(log) - 1) :
          /\ log[k].mlen = 0
          /\ log[k + 1].blk = log[k].blk
          /\ log[k + 1].off = log[k].off

-----------------------------------------------------------------------------
(* The flag set of a forwarded message *)

\* The flag slots the handler of that name can set: those of the parse_*_flags
\* method it calls, or the status slot it assigns itself.
FlagSlots(hname) ==
    {r[1] : r \in FlagReads("multicast", hname)}
        \cup (IF hname = "msg_login_response" THEN {"login_status"}
              ELSE IF hname = "msg_gap_response" THEN {"gap_status"}
              ELSE IF hname = "msg_trading_status" THEN {"trading_status"}
              ELSE {})

\* The steps on which a flag set with a nonzero slot stayed on the instance:
\* the handler ran and set flags, and the message failed afterwards.
FlagsLeft ==
    {k \in 1..Len(log) : log[k].out = "failed" /\ log[k].decoded
                            /\ FlagSlots(log[k].handler) # {}}

\* C23: in the multicast parser the flag set forwarded with a message has
\* nonzero values only in the slots the handler of that message sets: no
\* value set by an earlier message, forwarded or failed after setting flags,
\* is in it.
C23_ForwardedFlagsAreOwn ==
    feed = "multicast" =>
        \A k \in Forwarded :
            LET fl == written[Rank(k)].entry["flags"]
            IN  /\ fl.present
                /\ \A f \in DOMAIN FlagsBits :
                      fl.b[f] # 0 => f \in FlagSlots(log[k].handler)

\* A Time message was forwarded with an all-zero flag set after a message
\* that had set flags and then failed, its flag set staying on the instance.
C23_Witness ==
    /\ feed = "multicast"
    /\ \E k \in Forwarded : \E j \in FlagsLeft :
          /\ j < k
          /\ log[k].handler = "msg_time"
          /\ \A f \in DOMAIN FlagsBits : written[Rank(k)].entry["flags"].b[f] = 0

====
